---- MODULE Spec2Model ----
(***************************************************************************)
(* Model of src/supply_chain_analysis.py: a linear script that generates   *)
(* three synthetic tables (inventory, sales, supplier performance),        *)
(* derives KPIs and a supplier scorecard, renders a dashboard and exports  *)
(* four CSV files.                                                         *)
(*                                                                         *)
(* Numbers.  Python floats are modelled as exact fixed-point values:       *)
(*   - a value drawn by np.random.uniform / np.random.normal is an integer *)
(*     number of thousandths (Milli),                                      *)
(*   - a value rounded to 2 decimals is an integer number of hundredths,   *)
(*   - Days_of_Stock (rounded to 1 decimal) is an integer number of tenths,*)
(*   - an unrounded quotient is a rational [num, den],                     *)
(*   - a pandas float column that may hold NaN / inf is a record           *)
(*     [kind, val] with val in hundredths.                                 *)
(* round() is round-half-to-even on the exact value.                       *)
(*                                                                         *)
(* Random draws are nondeterministic choices from the sets of a "draw      *)
(* profile" D; every specification below is the whole script run under    *)
(* one profile.                                                            *)
(***************************************************************************)
EXTENDS Integers, Sequences, FiniteSets, TLC

VARIABLES
    pc,                 \* position of the script
    error,              \* the uncaught exception that ended the script, or "none"
    inventory_data,     \* list built by the inventory loop (lines 59-84)
    drawn_sales,        \* the loop's local avg_daily_sales (unrounded), per iteration
    df_inv,             \* inventory DataFrame with its derived columns
    sales_records,      \* list built by the sales loop (lines 92-100)
    df_sales,           \* sales DataFrame with Month / Quarter
    supplier_data,      \* list built by the supplier loop (lines 107-123)
    df_sup,             \* supplier DataFrame with OTD_Rate / Lead_Time_Variance
    kpi,                \* <<>> or <<the KPI totals of lines 139-152>>
    risk_summary,       \* <<>> or <<contingency table, high-risk detail>>
    supplier_scorecard, \* <<>> or the scorecard rows, one per supplier
    fig,                \* "none" | "drawn" | "closed"
    files               \* output file -> "pending" | "written" | "failed"

vars == <<pc, error, inventory_data, drawn_sales, df_inv, sales_records, df_sales,
          supplier_data, df_sup, kpi, risk_summary, supplier_scorecard, fig, files>>

-----------------------------------------------------------------------------
(* Bounds of the model (the script uses 100 SKUs, 366 days, 12 months).    *)

NumSkus == 2

NumDays == 1

NumMonths == 2

-----------------------------------------------------------------------------
(* Arithmetic helpers.                                                     *)

\* One drawn float unit: values drawn from uniform()/normal() are thousandths.
Milli == 10 * 10 * 10

\* round(n/d) to the nearest integer, ties to even (Python round, numpy rint); d > 0.
RoundHalfEven(n, d) ==
    LET q == n \div d
        r == n % d
    IN  IF 2 * r < d THEN q
        ELSE IF 2 * r > d THEN q + 1
        ELSE IF q % 2 = 0 THEN q ELSE q + 1

\* int(n/d): truncation toward zero; d > 0.
Truncate(n, d) == IF n >= 0 THEN n \div d ELSE -((-n) \div d)

\* round(x, 2) of a drawn value x (thousandths), in hundredths.
Round2(x) == RoundHalfEven(x, 10)

Max(a, b) == IF a >= b THEN a ELSE b

RECURSIVE SeqSum(_)
SeqSum(s) == IF s = <<>> THEN 0 ELSE s[1] + SeqSum(Tail(s))

\* Python's true division n / d: raises ZeroDivisionError when d = 0.
Divide(n, d) ==
    [zero_division |-> d = 0, num |-> n, den |-> IF d = 0 THEN 1 ELSE d]

\* q < k for a quotient q (den > 0) and an integer k.
LessThan(q, k) == q.num < k * q.den

-----------------------------------------------------------------------------
(* Inventory derivation, lines 65-69.                                      *)

\* line 65: reorder_point = avg_daily_sales * 14 (thousandths).
reorder_point(avg_daily_sales) == avg_daily_sales * 14

days_of_stock_unguarded(current_stock, avg_daily_sales) ==
    Divide(current_stock * Milli, avg_daily_sales)

\* line 67: current_stock / avg_daily_sales if avg_daily_sales > 0 else 0.
days_of_stock(current_stock, avg_daily_sales) ==
    IF avg_daily_sales > 0
    THEN Divide(current_stock * Milli, avg_daily_sales)
    ELSE Divide(0, 1)

stockout_risk_inclusive(dos) ==
    IF dos.num <= 7 * dos.den THEN "High"
    ELSE IF dos.num <= 14 * dos.den THEN "Medium" ELSE "Low"

\* line 68.
stockout_risk(dos) ==
    IF LessThan(dos, 7) THEN "High"
    ELSE IF LessThan(dos, 14) THEN "Medium" ELSE "Low"

movement_inclusive(avg_daily_sales) ==
    IF avg_daily_sales >= 10 * Milli THEN "Fast"
    ELSE IF avg_daily_sales >= 5 * Milli THEN "Medium" ELSE "Slow"

\* line 69.
movement(avg_daily_sales) ==
    IF avg_daily_sales > 10 * Milli THEN "Fast"
    ELSE IF avg_daily_sales > 5 * Milli THEN "Medium" ELSE "Slow"

\* Days of stock taken from the opening stock instead of the current stock.
inventory_row_opening(sku, cat, sup, opening_stock, avg_daily_sales, current_stock, unit_cost, holding_cost) ==
    LET dos == days_of_stock(opening_stock, avg_daily_sales)
    IN  [SKU |-> sku, Category |-> cat, Supplier |-> sup,
         Opening_Stock |-> opening_stock,
         Current_Stock |-> current_stock,
         Avg_Daily_Sales |-> Round2(avg_daily_sales),
         Reorder_Point |-> RoundHalfEven(reorder_point(avg_daily_sales), Milli),
         Days_of_Stock |-> RoundHalfEven(dos.num * 10, dos.den),
         Stockout_Risk |-> stockout_risk(dos),
         Movement_Type |-> movement(avg_daily_sales),
         Unit_Cost |-> Round2(unit_cost),
         Holding_Cost_Per_Day |-> Round2(holding_cost)]

\* lines 71-84: the dictionary appended for one SKU.  The SKU label
\* f'SKU-{str(i).zfill(4)}' is modelled by its number i.
inventory_row(sku, cat, sup, opening_stock, avg_daily_sales, current_stock, unit_cost, holding_cost) ==
    LET dos == days_of_stock(current_stock, avg_daily_sales)
    IN  [SKU |-> sku, Category |-> cat, Supplier |-> sup,
         Opening_Stock |-> opening_stock,
         Current_Stock |-> current_stock,
         Avg_Daily_Sales |-> Round2(avg_daily_sales),
         Reorder_Point |-> RoundHalfEven(reorder_point(avg_daily_sales), Milli),
         Days_of_Stock |-> RoundHalfEven(dos.num * 10, dos.den),
         Stockout_Risk |-> stockout_risk(dos),
         Movement_Type |-> movement(avg_daily_sales),
         Unit_Cost |-> Round2(unit_cost),
         Holding_Cost_Per_Day |-> Round2(holding_cost)]

\* lines 87-88: the two derived columns of df_inv (hundredths).
with_inventory_columns(row) ==
    [SKU |-> row.SKU, Category |-> row.Category, Supplier |-> row.Supplier,
     Opening_Stock |-> row.Opening_Stock, Current_Stock |-> row.Current_Stock,
     Avg_Daily_Sales |-> row.Avg_Daily_Sales, Reorder_Point |-> row.Reorder_Point,
     Days_of_Stock |-> row.Days_of_Stock, Stockout_Risk |-> row.Stockout_Risk,
     Movement_Type |-> row.Movement_Type, Unit_Cost |-> row.Unit_Cost,
     Holding_Cost_Per_Day |-> row.Holding_Cost_Per_Day,
     Inventory_Value |-> row.Current_Stock * row.Unit_Cost,
     Holding_Cost_Total |-> row.Current_Stock * row.Holding_Cost_Per_Day * 30]

\* Elements of a list (np.random.choice draws one of them).
Elements(list) == {list[i] : i \in 1..Len(list)}

\* lines 60-84: one iteration of the inventory loop.  A ZeroDivisionError in
\* line 67 would end the script.
GenerateInventoryRecord(D) ==
    /\ pc = "gen_inventory"
    /\ Len(inventory_data) < D.skus
    /\ \E cat \in Elements(D.categories), sup \in Elements(D.suppliers),
          opening_stock \in D.opening, avg_daily_sales \in D.sales,
          current_stock \in D.stock, unit_cost \in D.cost, holding_cost \in D.hold :
          IF days_of_stock(current_stock, avg_daily_sales).zero_division
          THEN /\ error' = "ZeroDivisionError"
               /\ pc' = "exit"
               /\ UNCHANGED <<inventory_data, drawn_sales>>
          ELSE /\ inventory_data' = Append(inventory_data,
                      inventory_row(Len(inventory_data) + 1, cat, sup, opening_stock,
                                    avg_daily_sales, current_stock, unit_cost,
                                    holding_cost))
               /\ drawn_sales' = Append(drawn_sales, avg_daily_sales)
               /\ UNCHANGED <<pc, error>>
    /\ UNCHANGED <<df_inv, sales_records, df_sales, supplier_data, df_sup, kpi,
                   risk_summary, supplier_scorecard, fig, files>>

\* lines 86-88: df_inv = pd.DataFrame(inventory_data) and its derived columns.
BuildInventoryFrame(D) ==
    /\ pc = "gen_inventory"
    /\ Len(inventory_data) = D.skus
    /\ df_inv' = [i \in 1..Len(inventory_data) |->
                      with_inventory_columns(inventory_data[i])]
    /\ pc' = "gen_sales"
    /\ UNCHANGED <<error, inventory_data, drawn_sales, sales_records, df_sales,
                   supplier_data, df_sup, kpi, risk_summary, supplier_scorecard,
                   fig, files>>

-----------------------------------------------------------------------------
(* Sales time series, lines 91-104.                                        *)

\* Days of the months of 2024 (pd.date_range('2024-01-01', '2024-12-31')).
DaysInMonth == <<31, 29, 31, 30, 31, 30, 31, 31, 30, 31, 30, 31>>

\* date.month of the day-th date of the range.
MonthOfDay(day) ==
    CHOOSE m \in 1..12 :
        /\ day <= SeqSum(SubSeq(DaysInMonth, 1, m))
        /\ day > SeqSum(SubSeq(DaysInMonth, 1, m - 1))

\* line 95.
base_sales ==
    [c \in {"Electronics", "Textiles", "Furniture", "Packaging", "Raw Materials"} |->
        CASE c = "Electronics" -> 150
          [] c = "Textiles" -> 200
          [] c = "Furniture" -> 80
          [] c = "Packaging" -> 300
          [] OTHER -> 250]

\* line 96: 1 + 0.3 * sin(2 * pi * month / 12), in thousandths.
seasonality ==
    <<1150, 1260, 1300, 1260, 1150, 1000, 850, 740, 700, 740, 850, 1000>>

\* line 98: max(0, int(base_sales[cat] * seasonality * noise)); noise in thousandths.
units_sold(cat, month, noise) ==
    Max(0, Truncate(base_sales[cat] * seasonality[month] * noise, Milli * Milli))

\* lines 93-100: one iteration of the inner loop (date, cat); revenue in thousandths.
GenerateSalesRecord(D) ==
    /\ pc = "gen_sales"
    /\ Len(sales_records) < D.days * Len(D.categories)
    /\ LET date == (Len(sales_records) \div Len(D.categories)) + 1
           cat == D.categories[(Len(sales_records) % Len(D.categories)) + 1]
       IN  \E noise \in D.noise, price \in D.price :
              LET units == units_sold(cat, MonthOfDay(date), noise)
              IN  sales_records' = Append(sales_records,
                      [Date |-> date, Category |-> cat, Units_Sold |-> units,
                       Revenue |-> units * price])
    /\ UNCHANGED <<pc, error, inventory_data, drawn_sales, df_inv, df_sales,
                   supplier_data, df_sup, kpi, risk_summary, supplier_scorecard,
                   fig, files>>

\* lines 102-104: df_sales with its Month and Quarter periods.
BuildSalesFrame(D) ==
    /\ pc = "gen_sales"
    /\ Len(sales_records) = D.days * Len(D.categories)
    /\ df_sales' = [i \in 1..Len(sales_records) |->
                      [Date |-> sales_records[i].Date,
                       Category |-> sales_records[i].Category,
                       Units_Sold |-> sales_records[i].Units_Sold,
                       Revenue |-> sales_records[i].Revenue,
                       Month |-> MonthOfDay(sales_records[i].Date),
                       Quarter |-> ((MonthOfDay(sales_records[i].Date) - 1) \div 3) + 1]]
    /\ pc' = "gen_supplier"
    /\ UNCHANGED <<error, inventory_data, drawn_sales, df_inv, sales_records,
                   supplier_data, df_sup, kpi, risk_summary, supplier_scorecard,
                   fig, files>>

-----------------------------------------------------------------------------
(* Supplier performance, lines 107-127.                                    *)

on_time_divided(orders, fraction) == Truncate(orders * Milli, fraction)

\* line 111: int(orders * np.random.uniform(0.65, 0.98)); fraction in thousandths.
on_time(orders, fraction) == Truncate(orders * fraction, Milli)

\* line 114.
lead_time_promised == 14

\* lines 110-123: the dictionary appended for one (supplier, month).
supplier_row(sup, month, orders, fraction, defect, lead_time_actual) ==
    [Supplier |-> sup, Month |-> month, Total_Orders |-> orders,
     On_Time_Deliveries |-> on_time(orders, fraction),
     Defect_Rate_Pct |-> Round2(defect),
     Actual_Lead_Time |-> lead_time_actual,
     Promised_Lead_Time |-> lead_time_promised]

\* lines 108-123: one iteration of the inner loop (sup, month).
GenerateSupplierRecord(D) ==
    /\ pc = "gen_supplier"
    /\ Len(supplier_data) < Len(D.suppliers) * D.months
    /\ LET sup == D.suppliers[(Len(supplier_data) \div D.months) + 1]
           month == (Len(supplier_data) % D.months) + 1
       IN  \E orders \in D.orders, fraction \in D.frac, defect \in D.defect,
              lead_time_actual \in D.lead :
              supplier_data' = Append(supplier_data,
                  supplier_row(sup, month, orders, fraction, defect, lead_time_actual))
    /\ UNCHANGED <<pc, error, inventory_data, drawn_sales, df_inv, sales_records,
                   df_sales, df_sup, kpi, risk_summary, supplier_scorecard, fig, files>>

\* pandas float values: a finite number (val, hundredths), NaN or inf.
Finite(v) == [kind |-> "finite", val |-> v]

NaN == [kind |-> "nan", val |-> 0]

Inf == [kind |-> "inf", val |-> 0]

\* line 126: (On_Time_Deliveries / Total_Orders * 100).round(2).  A pandas Series
\* division by zero does not raise: 0/0 is NaN and x/0 is inf.
otd_rate(on_time_deliveries, total_orders) ==
    IF total_orders = 0
    THEN IF on_time_deliveries = 0 THEN NaN ELSE Inf
    ELSE Finite(RoundHalfEven(on_time_deliveries * 100 * 100, total_orders))

\* lines 125-127: df_sup with OTD_Rate and Lead_Time_Variance.
BuildSupplierFrame(D) ==
    /\ pc = "gen_supplier"
    /\ Len(supplier_data) = Len(D.suppliers) * D.months
    /\ df_sup' = [i \in 1..Len(supplier_data) |->
                    LET s == supplier_data[i]
                    IN  [Supplier |-> s.Supplier, Month |-> s.Month,
                         Total_Orders |-> s.Total_Orders,
                         On_Time_Deliveries |-> s.On_Time_Deliveries,
                         Defect_Rate_Pct |-> s.Defect_Rate_Pct,
                         Actual_Lead_Time |-> s.Actual_Lead_Time,
                         Promised_Lead_Time |-> s.Promised_Lead_Time,
                         OTD_Rate |-> otd_rate(s.On_Time_Deliveries, s.Total_Orders),
                         Lead_Time_Variance |->
                             s.Actual_Lead_Time - s.Promised_Lead_Time]]
    /\ pc' = "kpi"
    /\ UNCHANGED <<error, inventory_data, drawn_sales, df_inv, sales_records, df_sales,
                   supplier_data, kpi, risk_summary, supplier_scorecard, fig, files>>

-----------------------------------------------------------------------------
(* KPIs and stockout risk analysis, lines 139-166.                         *)

\* The column `field` of a frame, as a list.
Column(frame, field) == [i \in 1..Len(frame) |-> frame[i][field]]

\* The distinct values of a column.
Present(frame, field) == {frame[i][field] : i \in 1..Len(frame)}

RowsWhere(frame, field, value) == SelectSeq(frame, LAMBDA row : row[field] = value)

\* lines 139-152.  avg_monthly_rev is the mean of the monthly revenue sums,
\* kept as the quotient total / number of months present.
ComputeKPIs ==
    /\ pc = "kpi"
    /\ kpi' = <<[total_inv_value |-> SeqSum(Column(df_inv, "Inventory_Value")),
                 total_holding_cost |-> SeqSum(Column(df_inv, "Holding_Cost_Total")),
                 high_risk_skus |-> Len(RowsWhere(df_inv, "Stockout_Risk", "High")),
                 slow_moving_skus |-> Len(RowsWhere(df_inv, "Movement_Type", "Slow")),
                 total_revenue_ytd |-> SeqSum(Column(df_sales, "Revenue")),
                 avg_monthly_rev |->
                     [num |-> SeqSum(Column(df_sales, "Revenue")),
                      den |-> Cardinality(Present(df_sales, "Month"))]]>>
    /\ pc' = "risk"
    /\ UNCHANGED <<error, inventory_data, drawn_sales, df_inv, sales_records, df_sales,
                   supplier_data, df_sup, risk_summary, supplier_scorecard, fig, files>>

\* lines 160-166: groupby(['Category', 'Stockout_Risk']).size().unstack(fill_value=0)
\* and the first 10 high-risk rows.
StockoutRiskAnalysis ==
    /\ pc = "risk"
    /\ risk_summary' =
          <<[table |-> [key \in Present(df_inv, "Category")
                                  \X Present(df_inv, "Stockout_Risk") |->
                           Len(SelectSeq(df_inv, LAMBDA row :
                                   /\ row.Category = key[1]
                                   /\ row.Stockout_Risk = key[2]))],
             high_risk_detail |->
                 LET high == RowsWhere(df_inv, "Stockout_Risk", "High")
                     top == SubSeq(high, 1, IF Len(high) < 10 THEN Len(high) ELSE 10)
                 IN  [i \in 1..Len(top) |->
                         [SKU |-> top[i].SKU, Category |-> top[i].Category,
                          Current_Stock |-> top[i].Current_Stock,
                          Days_of_Stock |-> top[i].Days_of_Stock,
                          Avg_Daily_Sales |-> top[i].Avg_Daily_Sales]]]>>
    /\ pc' = "scorecard"
    /\ UNCHANGED <<error, inventory_data, drawn_sales, df_inv, sales_records, df_sales,
                   supplier_data, df_sup, kpi, supplier_scorecard, fig, files>>

-----------------------------------------------------------------------------
(* Supplier scorecard, lines 173-186.                                      *)

\* Series.mean() then .round(2) of a float column (hundredths): NaN entries are
\* skipped, an inf entry makes the mean inf, no entry left gives NaN.
mean_round2(column) ==
    LET kept == SelectSeq(column, LAMBDA x : x.kind # "nan")
    IN  IF kept = <<>> THEN NaN
        ELSE IF \E i \in 1..Len(kept) : kept[i].kind = "inf" THEN Inf
        ELSE Finite(RoundHalfEven(SeqSum([i \in 1..Len(kept) |-> kept[i].val]),
                                  Len(kept)))

\* The same for a column without NaN, in hundredths: scale = 1 for a column
\* held in hundredths (Defect_Rate_Pct), 100 for a column of whole numbers
\* (Lead_Time_Variance).
mean_round2_int(column, scale) ==
    RoundHalfEven(SeqSum(column) * scale, Len(column))

performance_score_misweighted(avg_otd, avg_defect, avg_lead_variance) ==
    IF avg_otd.kind # "finite" THEN avg_otd
    ELSE Finite(RoundHalfEven(avg_otd.val - 2 * 2 * avg_defect - 2 * 3 * avg_lead_variance, 2))

\* lines 179-183: (Avg_OTD_Rate * 0.5 - Avg_Defect_Rate * 3 -
\* Avg_Lead_Time_Variance * 2).round(2), all in hundredths.
performance_score(avg_otd, avg_defect, avg_lead_variance) ==
    IF avg_otd.kind # "finite" THEN avg_otd
    ELSE Finite(RoundHalfEven(avg_otd.val - 2 * 3 * avg_defect - 2 * 2 * avg_lead_variance, 2))

rating_inclusive(score) ==
    IF score.kind = "nan" THEN "Needs Improvement"
    ELSE IF score.kind = "inf" \/ score.val >= 40 * 100 THEN "Excellent"
    ELSE IF score.val >= 30 * 100 THEN "Good" ELSE "Needs Improvement"

\* lines 184-186; every comparison with NaN is false.  The labels carry a
\* prefix of one to three stars in the source.
rating(score) ==
    IF score.kind = "nan" THEN "Needs Improvement"
    ELSE IF score.kind = "inf" \/ score.val > 40 * 100 THEN "Excellent"
    ELSE IF score.val > 30 * 100 THEN "Good" ELSE "Needs Improvement"

\* lines 173-186: one scorecard row, for the supplier's monthly rows.
scorecard_row(sup, rows) ==
    LET avg_otd == mean_round2(Column(rows, "OTD_Rate"))
        avg_defect == mean_round2_int(Column(rows, "Defect_Rate_Pct"), 1)
        avg_lead == mean_round2_int(Column(rows, "Lead_Time_Variance"), 100)
        score == performance_score(avg_otd, avg_defect, avg_lead)
    IN  [Supplier |-> sup,
         Avg_OTD_Rate |-> avg_otd,
         Avg_Defect_Rate |-> avg_defect,
         Avg_Lead_Time_Variance |-> avg_lead,
         Total_Orders |-> SeqSum(Column(rows, "Total_Orders")),
         Performance_Score |-> score,
         Rating |-> rating(score)]

\* lines 173-186: groupby('Supplier') keeps one row per supplier, in sorted
\* order, which is the order of the suppliers list.
SupplierScorecard(D) ==
    /\ pc = "scorecard"
    /\ supplier_scorecard' =
          [k \in 1..Len(D.suppliers) |->
              scorecard_row(D.suppliers[k], RowsWhere(df_sup, "Supplier", D.suppliers[k]))]
    /\ pc' = "render"
    /\ UNCHANGED <<error, inventory_data, drawn_sales, df_inv, sales_records, df_sales,
                   supplier_data, df_sup, kpi, risk_summary, fig, files>>

-----------------------------------------------------------------------------
(* Dashboard and export, lines 191-301.                                    *)

OutputFiles ==
    <<"supply_chain_dashboard.png", "inventory_data.csv", "sales_data.csv",
      "supplier_data.csv", "supplier_scorecard.csv">>

\* lines 191-285: the figure with its nine panels.
RenderDashboard ==
    /\ pc = "render"
    /\ fig' = "drawn"
    /\ pc' = "write_1"
    /\ UNCHANGED <<error, inventory_data, drawn_sales, df_inv, sales_records, df_sales,
                   supplier_data, df_sup, kpi, risk_summary, supplier_scorecard, files>>

\* The position after the k-th write: the next write, or the end of the script.
AfterWrite(k) ==
    CASE k = 1 -> "write_2"
      [] k = 2 -> "write_3"
      [] k = 3 -> "write_4"
      [] k = 4 -> "write_5"
      [] OTHER -> "done"

WriteAt(k) ==
    CASE k = 1 -> "write_1"
      [] k = 2 -> "write_2"
      [] k = 3 -> "write_3"
      [] k = 4 -> "write_4"
      [] OTHER -> "write_5"

\* lines 288-289 (k = 1: plt.savefig, then plt.close) and 293-296 (k = 2..5:
\* the four to_csv calls): the write succeeds and the script goes on.
WriteFile(k) ==
    /\ pc = WriteAt(k)
    /\ files' = [files EXCEPT ![OutputFiles[k]] = "written"]
    /\ fig' = IF k = 1 THEN "closed" ELSE fig
    /\ pc' = AfterWrite(k)
    /\ UNCHANGED <<error, inventory_data, drawn_sales, df_inv, sales_records, df_sales,
                   supplier_data, df_sup, kpi, risk_summary, supplier_scorecard>>

\* The write raises OSError (missing directory, no permission, full disk).  No
\* try/except surrounds it: the exception ends the script.
WriteFileFails(k) ==
    /\ pc = WriteAt(k)
    /\ files' = [files EXCEPT ![OutputFiles[k]] = "failed"]
    /\ error' = "OSError"
    /\ pc' = "exit"
    /\ UNCHANGED <<inventory_data, drawn_sales, df_inv, sales_records, df_sales,
                   supplier_data, df_sup, kpi, risk_summary, supplier_scorecard, fig>>

SaveDashboard == WriteFile(1)

SaveDashboardFails == WriteFileFails(1)

ExportCsv == \E k \in 2..5 : WriteFile(k)

ExportCsvFails == \E k \in 2..5 : WriteFileFails(k)

-----------------------------------------------------------------------------
(* The script.                                                             *)

\* The state before line 59.
Init ==
    /\ pc = "gen_inventory"
    /\ error = "none"
    /\ inventory_data = <<>>
    /\ drawn_sales = <<>>
    /\ df_inv = <<>>
    /\ sales_records = <<>>
    /\ df_sales = <<>>
    /\ supplier_data = <<>>
    /\ df_sup = <<>>
    /\ kpi = <<>>
    /\ risk_summary = <<>>
    /\ supplier_scorecard = <<>>
    /\ fig = "none"
    /\ files = [f \in Elements(OutputFiles) |-> "pending"]

\* The script under the draw profile D.
Run(D) ==
    \/ GenerateInventoryRecord(D)
    \/ BuildInventoryFrame(D)
    \/ GenerateSalesRecord(D)
    \/ BuildSalesFrame(D)
    \/ GenerateSupplierRecord(D)
    \/ BuildSupplierFrame(D)
    \/ ComputeKPIs
    \/ StockoutRiskAnalysis
    \/ SupplierScorecard(D)
    \/ RenderDashboard
    \/ SaveDashboard
    \/ SaveDashboardFails
    \/ ExportCsv
    \/ ExportCsvFails

\* Draws of the generators, a few values of each range (lines 61-66, 82-83,
\* 97-99, 110-113).
GeneratorDraws ==
    [skus |-> NumSkus,
     categories |-> <<"Electronics", "Textiles">>,
     suppliers |-> <<"SupplierA", "SupplierB">>,
     opening |-> {50, 499},
     sales |-> {4996, 5004},
     stock |-> {35},
     cost |-> {50000},
     hold |-> {500},
     days |-> NumDays,
     noise |-> {1000},
     price |-> {500000},
     months |-> NumMonths,
     orders |-> {20},
     frac |-> {650},
     defect |-> {500},
     lead |-> {7}]

Next == Run(GeneratorDraws)

Spec == Init /\ [][Next]_vars

\* One SKU whose stock and sales rate range over the boundaries of lines 67-69,
\* the rate 0 of the guard of line 67 included.
DerivationDraws ==
    [GeneratorDraws EXCEPT
        !.skus = 1,
        !.categories = <<"Electronics">>,
        !.suppliers = <<"SupplierA">>,
        !.opening = {50},
        !.sales = {0, 1000, 4996, 4999, 5000, 5001, 5004, 9999, 10000, 10001, 19999},
        !.stock = {0, 6, 7, 8, 13, 14, 15, 34, 35, 36, 69, 70, 71, 139, 140, 399},
        !.days = 1,
        !.months = 1]

NextDerivation == Run(DerivationDraws)

SpecDerivation == Init /\ [][NextDerivation]_vars

\* One supplier month over the whole order range of line 110 and completion
\* fractions across [0.65, 0.98) of line 111.
SupplierDraws ==
    [GeneratorDraws EXCEPT
        !.skus = 1,
        !.categories = <<"Electronics">>,
        !.suppliers = <<"SupplierA">>,
        !.opening = {50},
        !.sales = {5004},
        !.days = 1,
        !.months = 1,
        !.orders = 20..79,
        !.frac = {650, 733, 850, 979}]

NextSupplier == Run(SupplierDraws)

SpecSupplier == Init /\ [][NextSupplier]_vars

\* Supplier months that may hold no order at all, which line 110 never draws.
ZeroOrderDraws ==
    [SupplierDraws EXCEPT
        !.orders = {0, 1, 20, 50, 79},
        !.frac = {650, 850, 979}]

NextZeroOrder == Run(ZeroOrderDraws)

SpecZeroOrder == Init /\ [][NextZeroOrder]_vars

\* One supplier over NumMonths months, with draws that reach the rating
\* boundaries 30 and 40 and means that are not whole hundredths.
ScorecardDraws ==
    [GeneratorDraws EXCEPT
        !.skus = 1,
        !.categories = <<"Electronics">>,
        !.suppliers = <<"SupplierA">>,
        !.opening = {50},
        !.sales = {5004},
        !.days = 1,
        !.orders = {20},
        !.frac = {910, 979},
        !.defect = {2000, 2500, 2510},
        !.lead = {14, 15, 19}]

NextScorecard == Run(ScorecardDraws)

SpecScorecard == Init /\ [][NextScorecard]_vars

-----------------------------------------------------------------------------
(* Properties.                                                             *)

\* The rows of the inventory list; row i was derived from drawn_sales[i].
InventoryRows == 1..Len(inventory_data)

\* C1: every inventory record's Stockout_Risk is High, Medium or Low and follows
\* the rule on days_of_stock = current_stock / avg_daily_sales (0 when the rate
\* is 0): High below 7, Medium from 7 to below 14, Low from 14 on.
C1_StockoutRiskRule ==
    \A i \in InventoryRows :
        LET cs == inventory_data[i].Current_Stock * Milli
            a == drawn_sales[i]
            risk == inventory_data[i].Stockout_Risk
            below7 == IF a > 0 THEN cs < 7 * a ELSE TRUE
            below14 == IF a > 0 THEN cs < 14 * a ELSE TRUE
        IN  /\ risk \in {"High", "Medium", "Low"}
            /\ (risk = "High") <=> below7
            /\ (risk = "Medium") <=> (~below7 /\ below14)
            /\ (risk = "Low") <=> ~below14

\* A record whose days of stock are exactly 7 (Medium); one at exactly 14 is Low.
C1_Witness ==
    \E i \in InventoryRows :
        /\ drawn_sales[i] > 0
        /\ inventory_data[i].Current_Stock * Milli = 7 * drawn_sales[i]
        /\ inventory_data[i].Stockout_Risk = "Medium"

\* C2 as stated: current_stock = 0 with avg_daily_sales = 5 gives days_of_stock 0,
\* risk High and movement Medium.
C2_AsStated ==
    \A i \in InventoryRows :
        (inventory_data[i].Current_Stock = 0 /\ drawn_sales[i] = 5 * Milli)
        => /\ inventory_data[i].Days_of_Stock = 0
           /\ inventory_data[i].Stockout_Risk = "High"
           /\ inventory_data[i].Movement_Type = "Medium"

\* C2 amended: current_stock = 0 with avg_daily_sales = 5 gives days_of_stock 0,
\* risk High and movement Slow.
C2_ZeroStockScenario ==
    \A i \in InventoryRows :
        (inventory_data[i].Current_Stock = 0 /\ drawn_sales[i] = 5 * Milli)
        => /\ inventory_data[i].Days_of_Stock = 0
           /\ inventory_data[i].Stockout_Risk = "High"
           /\ inventory_data[i].Movement_Type = "Slow"

C2_Witness ==
    \E i \in InventoryRows :
        /\ inventory_data[i].Current_Stock = 0
        /\ drawn_sales[i] = 5 * Milli
        /\ inventory_data[i].Movement_Type = "Slow"

\* C8: Movement_Type is Fast when avg_daily_sales > 10, Medium when it is above 5
\* and at most 10, Slow when it is at most 5.
C8_MovementRule ==
    \A i \in InventoryRows :
        LET a == drawn_sales[i]
            m == inventory_data[i].Movement_Type
        IN  /\ m \in {"Fast", "Medium", "Slow"}
            /\ (m = "Fast") <=> (a > 10 * Milli)
            /\ (m = "Medium") <=> (a > 5 * Milli /\ a <= 10 * Milli)
            /\ (m = "Slow") <=> (a <= 5 * Milli)

\* A record whose sales rate is exactly 10 (Medium).
C8_Witness ==
    \E i \in InventoryRows :
        /\ drawn_sales[i] = 10 * Milli
        /\ inventory_data[i].Movement_Type = "Medium"

\* C9: with avg_daily_sales = 0 the script raises no division fault, and the
\* record has days of stock 0 and risk High whatever its current stock.
C9_ZeroSalesGuard ==
    /\ error # "ZeroDivisionError"
    /\ \A i \in InventoryRows :
          drawn_sales[i] = 0
          => /\ inventory_data[i].Days_of_Stock = 0
             /\ inventory_data[i].Stockout_Risk = "High"

C9_Witness ==
    \E i \in InventoryRows :
        /\ drawn_sales[i] = 0
        /\ inventory_data[i].Current_Stock = 399
        /\ inventory_data[i].Stockout_Risk = "High"

\* The derived fields of an inventory record.
DerivedAtGeneration(row) ==
    <<row.Reorder_Point, row.Days_of_Stock, row.Stockout_Risk, row.Movement_Type>>

DerivedInFrame(row) == <<row.Inventory_Value, row.Holding_Cost_Total>>

StoredBase(row) ==
    <<row.Current_Stock, row.Avg_Daily_Sales, row.Unit_Cost, row.Holding_Cost_Per_Day>>

\* C5 as stated: two inventory records with equal stored Current_Stock,
\* Avg_Daily_Sales, Unit_Cost and Holding_Cost_Per_Day have equal derived fields.
C5_AsStated ==
    \A i, j \in 1..Len(df_inv) :
        StoredBase(df_inv[i]) = StoredBase(df_inv[j])
        => /\ DerivedAtGeneration(df_inv[i]) = DerivedAtGeneration(df_inv[j])
           /\ DerivedInFrame(df_inv[i]) = DerivedInFrame(df_inv[j])

\* C5 amended: Reorder_Point, Days_of_Stock, Stockout_Risk and Movement_Type are
\* determined by the record's Current_Stock and the unrounded average daily
\* sales it was generated from (the stored Avg_Daily_Sales is that value rounded
\* to 2 decimals, and is determined by it too); Inventory_Value and
\* Holding_Cost_Total are determined by the stored Current_Stock, Unit_Cost and
\* Holding_Cost_Per_Day.
C5_DerivedFromDrawn ==
    \A i, j \in 1..Len(df_inv) :
        /\ (df_inv[i].Current_Stock = df_inv[j].Current_Stock
              /\ drawn_sales[i] = drawn_sales[j])
           => /\ DerivedAtGeneration(df_inv[i]) = DerivedAtGeneration(df_inv[j])
              /\ df_inv[i].Avg_Daily_Sales = df_inv[j].Avg_Daily_Sales
        /\ (df_inv[i].Current_Stock = df_inv[j].Current_Stock
              /\ df_inv[i].Unit_Cost = df_inv[j].Unit_Cost
              /\ df_inv[i].Holding_Cost_Per_Day = df_inv[j].Holding_Cost_Per_Day)
           => DerivedInFrame(df_inv[i]) = DerivedInFrame(df_inv[j])

\* Two records generated from the same stock and sales rate but a different
\* opening stock.
C5_Witness ==
    \E i, j \in 1..Len(df_inv) :
        /\ i # j
        /\ df_inv[i].Current_Stock = df_inv[j].Current_Stock
        /\ drawn_sales[i] = drawn_sales[j]
        /\ df_inv[i].Opening_Stock # df_inv[j].Opening_Stock
        /\ DerivedAtGeneration(df_inv[i]) = DerivedAtGeneration(df_inv[j])

\* C10: every generated supplier month has 0 <= On_Time_Deliveries <= Total_Orders.
C10_OnTimeWithinOrders ==
    \A i \in 1..Len(supplier_data) :
        /\ 0 <= supplier_data[i].On_Time_Deliveries
        /\ supplier_data[i].On_Time_Deliveries <= supplier_data[i].Total_Orders

\* The largest order count with the largest fraction: int(79 * 0.979) = 77.
C10_Witness ==
    \E i \in 1..Len(supplier_data) :
        /\ supplier_data[i].Total_Orders = 79
        /\ supplier_data[i].On_Time_Deliveries = 77

RowsOf(entry) == RowsWhere(df_sup, "Supplier", entry.Supplier)

FiniteColumnSum(rows, field) == SeqSum([i \in 1..Len(rows) |-> rows[i][field].val])

Abs(x) == IF x >= 0 THEN x ELSE -x

\* C6 as stated: Performance_Score = avg_otd*0.5 - avg_defect*3 - avg_lead*2 with
\* the three arithmetic means over the supplier's monthly rows (in hundredths,
\* times 2n: 2n*score = sum(OTD) - 6*sum(defect) - 4*100*sum(variance)).
C6_AsStated ==
    \A k \in 1..Len(supplier_scorecard) :
        LET e == supplier_scorecard[k]
            rows == RowsOf(e)
        IN  2 * Len(rows) * e.Performance_Score.val =
                FiniteColumnSum(rows, "OTD_Rate")
                - 6 * SeqSum(Column(rows, "Defect_Rate_Pct"))
                - 4 * 100 * SeqSum(Column(rows, "Lead_Time_Variance"))

\* C6 amended: the three averages of a scorecard entry are the arithmetic means
\* over the supplier's monthly rows rounded to 2 decimals, and Performance_Score
\* is avg_otd*0.5 - avg_defect*3 - avg_lead*2 of these rounded averages, rounded
\* to 2 decimals; for the averages 90, 2 and 1 it is 37.
C6_ScoreOfRoundedMeans ==
    \A k \in 1..Len(supplier_scorecard) :
        LET e == supplier_scorecard[k]
            rows == RowsOf(e)
            n == Len(rows)
            A == e.Avg_OTD_Rate.val
            Dm == e.Avg_Defect_Rate
            L == e.Avg_Lead_Time_Variance
        IN  /\ e.Avg_OTD_Rate.kind = "finite"
            /\ e.Performance_Score.kind = "finite"
            /\ 2 * Abs(n * A - FiniteColumnSum(rows, "OTD_Rate")) <= n
            /\ 2 * Abs(n * Dm - SeqSum(Column(rows, "Defect_Rate_Pct"))) <= n
            /\ 2 * Abs(n * L - 100 * SeqSum(Column(rows, "Lead_Time_Variance"))) <= n
            /\ Abs(2 * e.Performance_Score.val - (A - 6 * Dm - 4 * L)) <= 1
            /\ (A = 9000 /\ Dm = 200 /\ L = 100) => e.Performance_Score.val = 3700

\* An entry with the averages 90, 2 and 1 and the score 37.
C6_Witness ==
    \E k \in 1..Len(supplier_scorecard) :
        /\ supplier_scorecard[k].Avg_OTD_Rate = Finite(9000)
        /\ supplier_scorecard[k].Avg_Defect_Rate = 200
        /\ supplier_scorecard[k].Avg_Lead_Time_Variance = 100
        /\ supplier_scorecard[k].Performance_Score = Finite(3700)

\* C7: Rating is Excellent when the score is above 40, Good when it is above 30
\* and at most 40, Needs Improvement when it is at most 30.
C7_RatingRule ==
    \A k \in 1..Len(supplier_scorecard) :
        LET e == supplier_scorecard[k]
            s == e.Performance_Score.val
        IN  /\ e.Performance_Score.kind = "finite"
            /\ (e.Rating = "Excellent") <=> (s > 4000)
            /\ (e.Rating = "Good") <=> (s > 3000 /\ s <= 4000)
            /\ (e.Rating = "Needs Improvement") <=> (s <= 3000)

\* An entry whose score is exactly 40 (Good).
C7_Witness ==
    \E k \in 1..Len(supplier_scorecard) :
        /\ supplier_scorecard[k].Performance_Score = Finite(4000)
        /\ supplier_scorecard[k].Rating = "Good"

\* C4 as stated: when a write fails, KPI derivation has completed and every
\* other presentation/export step has run by the end of the script.
C4_AsStated ==
    (pc \in {"done", "exit"} /\ \E f \in DOMAIN files : files[f] = "failed")
    => /\ df_inv # <<>> /\ kpi # <<>> /\ risk_summary # <<>>
       /\ supplier_scorecard # <<>>
       /\ \A g \in DOMAIN files : files[g] # "pending"

====
